---- MODULE Spec2Model ----
(***************************************************************************)
(* timeturner: the segment reconciliation engine (timeturner._add), the    *)
(* segment store it works on (db.DatabaseConnection) and the calendar      *)
(* helpers it uses.                                                        *)
(*                                                                         *)
(* Time is a line of integer ticks, TicksPerDay ticks to a calendar day;   *)
(* tick d * TicksPerDay is the midnight that starts day d.  All timestamps *)
(* carry the same UTC offset, so the order of the stored ISO strings, the  *)
(* order of the datetimes and the order of the ticks agree.  Day 0 is a    *)
(* Wednesday.  None (no end) is the tick -1.                               *)
(***************************************************************************)
EXTENDS Integers, Sequences, FiniteSets, TLC

VARIABLES db, nextPk, now, req, ret, prev, prevPk, calls, plan, parts,
          segments, weekDay, clock, summary, range, fetched, listed,
          tag_table, stopped

vars == <<db, nextPk, now, req, ret, prev, prevPk, calls, plan, parts,
          segments, weekDay, clock, summary, range, fetched, listed,
          tag_table, stopped>>

(***************************************************************************)
(* Bounds of the model.                                                    *)
(***************************************************************************)
TicksPerDay == 2
NumDays == 2
NumDaysFullDay == 4
MaxCalls == 3
NumFullDays == 6
MaxFullCalls == 2
NumSplitDays == 7
MaxSegments == 2

MaxListed == 3
MaxListCalls == 2
MaxRangeCalls == 1

None == -1

(***************************************************************************)
(* Calendar helpers (helper.py, settings.py).                              *)
(***************************************************************************)
\* date() of a timestamp: the number of the day the tick lies on
DateOf(t) == t \div TicksPerDay

\* datetime(day.year, day.month, day.day): the midnight that starts a day
Midnight(d) == d * TicksPerDay

\* date.weekday(): 0 = Monday .. 6 = Sunday; day 0 is a Wednesday
weekday(d) == (d + 2) % 7

\* ReportSettings.worktime_per_weekday, in hours
worktime_per_weekday == [w \in 0..6 |-> IF w <= 4 THEN 8 ELSE 0]

is_work_day(t) == worktime_per_weekday[weekday(DateOf(t))] # 0

end_of_day(t) == Midnight(DateOf(t) + 1)

\* variant of iter_over_days: the microsecond is not taken off end, so the
\* day that starts at end is yielded too
iter_over_days_to_end_day(start, end) ==
    IF end < start
    THEN << >>
    ELSE [i \in 1..(DateOf(end) - DateOf(start) + 1) |-> DateOf(start) + i - 1]

\* the days iter_over_days yields, first to last (empty when end <= start):
\* end - 1 microsecond lies on the day of the tick before end
iter_over_days(start, end) ==
    IF end - 1 < start
    THEN << >>
    ELSE [i \in 1..(DateOf(end - 1) - DateOf(start) + 1) |-> DateOf(start) + i - 1]

(***************************************************************************)
(* Tag policy (settings.py; prio1 is the tag the high-level tests add).    *)
(***************************************************************************)
TagSettings(full_day, priority, only_cover_work_days, passive) ==
    [full_day |-> full_day, priority |-> priority,
     only_cover_work_days |-> only_cover_work_days,
     track_work_time_passive |-> passive,
     track_work_time |-> FALSE, track_break_time |-> FALSE,
     track_over_time |-> FALSE]

tag_settings ==
    [t \in {"holiday", "sick-certified", "vacation", "sick", "travel", "prio1"} |->
        CASE t = "holiday" -> TagSettings(TRUE, 10, FALSE, FALSE)
          [] t = "sick-certified" -> TagSettings(TRUE, 9, FALSE, FALSE)
          [] t = "vacation" -> TagSettings(TRUE, 8, TRUE, FALSE)
          [] t = "sick" -> TagSettings(TRUE, 7, FALSE, FALSE)
          [] t = "travel" -> TagSettings(FALSE, 0, FALSE, TRUE)
          [] t = "prio1" -> TagSettings(FALSE, 1, FALSE, FALSE)]

Max(S) == CHOOSE x \in S : \A y \in S : y <= x

get_tag_prio(tags) ==
    Max({0} \cup {tag_settings[t].priority : t \in tags \cap DOMAIN tag_settings})

has_full_day_tags(tags) ==
    \E t \in tags \cap DOMAIN tag_settings : tag_settings[t].full_day

has_work_days_only_tags(tags) ==
    \E t \in tags \cap DOMAIN tag_settings : tag_settings[t].only_cover_work_days

(***************************************************************************)
(* Records.                                                                *)
(***************************************************************************)
NewSegmentParams(start, end, tags, description, passive, full_days) ==
    [start |-> start, end |-> end, tags |-> tags, description |-> description,
     passive |-> passive, full_days |-> full_days]

\* the default of NewSegmentParams.full_days
DefaultFullDays == FALSE

PensiveRow(pk, start, end, passive, full_days, tags, description) ==
    [pk |-> pk, start |-> start, end |-> end, passive |-> passive,
     full_days |-> full_days, tags |-> tags, description |-> description]

(***************************************************************************)
(* The segment store (db.py).  A store state is the set of its rows, the   *)
(* next primary key of the AUTOINCREMENT column and the table tags.  Every *)
(* store call ends with connection.commit(): points is the set of the      *)
(* databases that were committed so far, each with whether an              *)
(* update_segment or delete_segment call has completed and with the number *)
(* of add_segment calls that have completed.                               *)
(***************************************************************************)
Point(rows, pk, tags, mutated, inserts) ==
    [rows |-> rows, nextPk |-> pk, tags |-> tags, mutated |-> mutated,
     inserts |-> inserts]

StoreWith(rows, pk, tags) ==
    [rows |-> rows, nextPk |-> pk, tags |-> tags, mutated |-> FALSE, inserts |-> 0,
     points |-> {}]

Store(rows, pk) == StoreWith(rows, pk, {})

\* self.connection.commit()
commit(st) ==
    [st EXCEPT !.points = @ \cup {Point(st.rows, st.nextPk, st.tags, st.mutated,
                                        st.inserts)}]

\* the default of the full_days parameter of add_segment
add_segment_full_days == FALSE

PensiveRow_of(st, start, end, passive, full_days, tags, description) ==
    PensiveRow(st.nextPk, start, end, passive, full_days, tags, description)

\* the commits of insert_or_get_tag_pk inside add_segment: a tag w[1] that is
\* not in the table tags is inserted and committed, together with the row
\* of the segment and its links to the tags w[2] that came before w[1]
insert_or_get_tag_pk(st, start, end, passive, full_days, tags, description) ==
    {Point(st.rows \cup {PensiveRow_of(st, start, end, passive, full_days, w[2],
                                       description)},
           st.nextPk + 1, st.tags \cup w[2] \cup {w[1]}, st.mutated, st.inserts) :
        w \in {v \in (tags \ st.tags) \X SUBSET tags : v[1] \notin v[2]}}

add_segment(st, start, end, passive, full_days, tags, description) ==
    commit([st EXCEPT
        !.rows = @ \cup {PensiveRow_of(st, start, end, passive, full_days, tags,
                                       description)},
        !.nextPk = @ + 1,
        !.tags = @ \cup tags,
        !.inserts = @ + 1,
        !.points = @ \cup insert_or_get_tag_pk(st, start, end, passive, full_days,
                                                tags, description)])

\* the row add_segment returns: get_segment(lastrowid)
added_row(st, start, end, passive, full_days, tags, description) ==
    PensiveRow(st.nextPk, start, end, passive, full_days, tags, description)

\* upd holds the fields that are not the sentinel
update_segment(st, pk, upd) ==
    commit([st EXCEPT
        !.rows = {IF r.pk = pk
                  THEN [f \in DOMAIN r |-> IF f \in DOMAIN upd THEN upd[f] ELSE r[f]]
                  ELSE r : r \in st.rows},
        !.mutated = TRUE])

delete_segment(st, pk) ==
    commit([st EXCEPT !.rows = {r \in st.rows : r.pk # pk}, !.mutated = TRUE])

\* ORDER BY start ASC (rows of equal start in rowid order)
RECURSIVE OrderByStart(_)
OrderByStart(rows) ==
    IF rows = {}
    THEN << >>
    ELSE LET first == CHOOSE r \in rows : \A o \in rows :
                          r.start < o.start \/ (r.start = o.start /\ r.pk <= o.pk)
         IN <<first>> \o OrderByStart(rows \ {first})

\* the row of the second query: the first segment starting after start
\* (the query has no full_days filter)
first_after(rows, start, exclude_full_days) ==
    LET later == {r \in rows : r.start > start}
    IN IF later = {} THEN << >> ELSE <<OrderByStart(later)[1]>>

\* variant: only the segments that start within the interval are returned
get_segments_between_starting_within(rows, start, end, exclude_full_days) ==
    LET e == IF end = None THEN start ELSE end
        collected == OrderByStart({r \in rows :
                        /\ r.start <= e
                        /\ r.start >= start
                        /\ (exclude_full_days => ~r.full_days)})
    IN IF end = None
       THEN collected \o first_after(rows, start, exclude_full_days)
       ELSE collected

get_segments_between(rows, start, end, exclude_full_days) ==
    LET e == IF end = None THEN start ELSE end
        collected == OrderByStart({r \in rows :
                        /\ r.start <= e
                        /\ (r.end = None \/ r.end > start)
                        /\ (exclude_full_days => ~r.full_days)})
    IN IF end = None
       THEN collected \o first_after(rows, start, exclude_full_days)
       ELSE collected

\* variant: closed segments are considered too
get_latest_segment_any(rows, filter_closed_segments) ==
    {r \in rows : \A o \in rows : o.start <= r.start}

\* the rows ORDER BY start DESC LIMIT 1 may return: the latest start among
\* the rows (among the open ones with filter_closed_segments); rows with
\* the same start come in no defined order
get_latest_segment(rows, filter_closed_segments) ==
    LET considered == IF filter_closed_segments
                      THEN {r \in rows : r.end = None}
                      ELSE rows
    IN {r \in considered : \A o \in considered : o.start <= r.start}

(***************************************************************************)
(* timeturner.py: the helpers of _add.                                     *)
(***************************************************************************)
\* the loop of split_segment_params_per_weekday over days[i..]; w is the
\* loop state [condition, start, ret]
RECURSIVE weekday_loop(_, _, _, _)
weekday_loop(p, days, i, w) ==
    IF i > Len(days)
    THEN w
    ELSE LET day == days[i]
         IN IF w.condition = "work"
            THEN IF ~is_work_day(Midnight(day))
                 THEN weekday_loop(p, days, i + 1,
                        [condition |-> "weekend", start |-> w.start,
                         ret |-> Append(w.ret,
                                   NewSegmentParams(w.start, Midnight(day), p.tags,
                                       p.description, p.passive, p.full_days))])
                 ELSE weekday_loop(p, days, i + 1, w)
            ELSE IF is_work_day(Midnight(day))
                 THEN weekday_loop(p, days, i + 1,
                        [condition |-> "work", start |-> Midnight(day), ret |-> w.ret])
                 ELSE weekday_loop(p, days, i + 1, w)

\* variant of split_segment_params_per_weekday: the request is not split
split_segment_params_per_weekday_whole(p) == <<p>>

split_segment_params_per_weekday(p) ==
    LET w == weekday_loop(p, iter_over_days(p.start, p.end), 1,
                 [condition |-> IF is_work_day(p.start) THEN "work" ELSE "weekend",
                  start |-> p.start, ret |-> << >>])
    IN IF w.condition = "work"
       THEN Append(w.ret, NewSegmentParams(w.start, p.end, p.tags, p.description,
                              p.passive, p.full_days))
       ELSE w.ret

\* split_segment_params: the pieces of the request before and after the
\* conflict (the middle piece is never used by _add); << >> stands for None
split_before(p, c) ==
    IF p.start < c.start
    THEN <<NewSegmentParams(p.start, c.start, p.tags, p.description, p.passive,
               DefaultFullDays)>>
    ELSE << >>

\* variant: the piece after the conflict runs to the end of the day on
\* which the request ends
split_after_to_end_of_day(p, c) ==
    IF c.end # None /\ ((p.end # None /\ p.end > c.end) \/ p.end = None)
    THEN <<NewSegmentParams(c.end, IF p.end = None THEN None ELSE end_of_day(p.end),
               p.tags, p.description, p.passive, DefaultFullDays)>>
    ELSE << >>

split_after(p, c) ==
    IF c.end # None /\ ((p.end # None /\ p.end > c.end) \/ p.end = None)
    THEN <<NewSegmentParams(c.end, p.end, p.tags, p.description, p.passive,
               DefaultFullDays)>>
    ELSE << >>

\* variant: the new segment wins whatever the priorities
new_wins_always(conflicting_tag_prio, current_tag_prio) == TRUE

\* the priority test of every branch: the new segment wins ties
new_wins(conflicting_tag_prio, current_tag_prio) ==
    conflicting_tag_prio <= current_tag_prio

(***************************************************************************)
(* timeturner._add.  A call works on a store state st and yields           *)
(* [st |-> the store afterwards, ret |-> the list of rows it returns].     *)
(* The loop over the conflicting segments carries                          *)
(*   L = [st, p, start, end, done, ret]                                    *)
(* where p is new_segment_params, start and end are the locals of _add,    *)
(* and done says that the loop body has returned ret.                      *)
(***************************************************************************)
Result(st, rows) == [st |-> st, ret |-> rows]

RECURSIVE _add(_, _, _)

\* _add on each of the requests of a list in turn, the returned lists joined
RECURSIVE add_each(_, _, _)

\* variant of add_each: only the rows of the last request are returned
add_each_last(ps, n, st) ==
    IF ps = << >>
    THEN Result(st, << >>)
    ELSE LET r1 == _add(Head(ps), n, st)
             r2 == add_each(Tail(ps), n, r1.st)
         IN Result(r2.st, IF Tail(ps) = << >> THEN r1.ret ELSE r2.ret)

add_each(ps, n, st) ==
    IF ps = << >>
    THEN Result(st, << >>)
    ELSE LET r1 == _add(Head(ps), n, st)
             r2 == add_each(Tail(ps), n, r1.st)
         IN Result(r2.st, r1.ret \o r2.ret)

\* db.add_segment(**new_segment_params.model_dump())
add_params(st, p) ==
    add_segment(st, p.start, p.end, p.passive, p.full_days, p.tags, p.description)

params_row(st, p) ==
    added_row(st, p.start, p.end, p.passive, p.full_days, p.tags, p.description)

\* the body of the loop for one conflicting segment c
resolve_conflict(L, c, n, current_tag_prio) ==
    LET conflicting_tag_prio == get_tag_prio(c.tags)
        wins == new_wins(conflicting_tag_prio, current_tag_prio)
        start == L.start
        end == L.end
    IN IF start <= c.start
       THEN IF end # None /\ end > c.start
            THEN IF (c.end # None /\ end < c.end) \/ c.end = None
                 THEN \* the conflicting segment is covered partially, at its start
                      IF wins
                      THEN [L EXCEPT !.st = update_segment(L.st, c.pk, [start |-> end])]
                      ELSE [L EXCEPT !.p.end = c.start, !.end = c.start]
                 ELSE \* the conflicting segment is fully covered
                      IF wins
                      THEN [L EXCEPT !.st = delete_segment(L.st, c.pk)]
                      ELSE LET r == add_each(split_before(L.p, c) \o split_after(L.p, c),
                                             n, L.st)
                           IN [L EXCEPT !.st = r.st, !.ret = r.ret, !.done = TRUE]
            ELSE IF end = None /\ c.start < n
                 THEN [L EXCEPT !.p.end = c.start]
                 ELSE L
       ELSE IF c.end = None
            THEN \* the open conflicting segment is closed whatever its priority
                 [L EXCEPT !.st = update_segment(L.st, c.pk, [end |-> start])]
            ELSE IF end # None /\ start > c.start /\ end < c.end
                 THEN \* the new segment is in the middle of the conflicting segment
                      IF wins
                      THEN LET s1 == update_segment(L.st, c.pk, [end |-> start])
                               s2 == add_params(s1, L.p)
                               s3 == add_segment(s2, end, c.end, c.passive,
                                         add_segment_full_days, c.tags, c.description)
                           IN [L EXCEPT !.st = s3, !.done = TRUE,
                                  !.ret = <<params_row(s1, L.p),
                                            added_row(s2, end, c.end, c.passive,
                                                add_segment_full_days, c.tags,
                                                c.description)>>]
                      ELSE [L EXCEPT !.ret = << >>, !.done = TRUE]
                 ELSE IF start < c.end /\ start > c.start
                      THEN \* the new segment starts in the middle of the conflict
                           IF wins
                           THEN [L EXCEPT !.st = update_segment(L.st, c.pk,
                                                    [end |-> start])]
                           ELSE [L EXCEPT !.p.start = c.end, !.start = c.end]
                      ELSE L

RECURSIVE resolve_conflicts(_, _, _, _, _)
resolve_conflicts(L, conflicting_segments, i, n, current_tag_prio) ==
    IF L.done \/ i > Len(conflicting_segments)
    THEN L
    ELSE resolve_conflicts(
             resolve_conflict(L, conflicting_segments[i], n, current_tag_prio),
             conflicting_segments, i + 1, n, current_tag_prio)

\* the segments _add takes as conflicts of the range [start, end)
\* variant of find_conflicts: a full-day request takes the segments of both
\* tracks as conflicts
find_conflicts_any_track(rows, tags, start, end) ==
    IF has_full_day_tags(tags)
    THEN get_segments_between(rows, start, end, FALSE)
    ELSE get_segments_between(rows, start, end, TRUE)

find_conflicts(rows, tags, start, end) ==
    IF has_full_day_tags(tags)
    THEN SelectSeq(get_segments_between(rows, start, end, FALSE),
                   LAMBDA segment : segment.full_days)
    ELSE get_segments_between(rows, start, end, TRUE)

\* the steps of _add after the split into work-day ranges: p is the request,
\* possibly trimmed; start and end are those of the request as passed in
reconcile(p, start, end, n, st) ==
    LET L == resolve_conflicts(
                 [st |-> st, p |-> p, start |-> start, end |-> end,
                  done |-> FALSE, ret |-> << >>],
                 find_conflicts(st.rows, p.tags, start, end), 1, n,
                 get_tag_prio(p.tags))
    IN IF L.done
       THEN Result(L.st, L.ret)
       ELSE Result(add_params(L.st, L.p), <<params_row(L.st, L.p)>>)

_add(new_segment_params, n, st) ==
    IF has_work_days_only_tags(new_segment_params.tags)
    THEN LET per_weekday == split_segment_params_per_weekday(new_segment_params)
         IN IF Len(per_weekday) = 0
            THEN Result(st, << >>)
            ELSE IF Len(per_weekday) > 1
                 THEN add_each(per_weekday, n, st)
                 ELSE reconcile(per_weekday[1], new_segment_params.start,
                                new_segment_params.end, n, st)
    ELSE reconcile(new_segment_params, new_segment_params.start,
                   new_segment_params.end, n, st)

(***************************************************************************)
(* The requests of the add command (parser.parse_add_args): a request with *)
(* a full-day tag covers whole days, from the midnight of its start to the *)
(* midnight after its end.                                                 *)
(***************************************************************************)
\* the full_days flag of a request built from the command line
request_full_days(tags) == has_full_day_tags(tags)

parse_add_args(start, end, tags) ==
    IF has_full_day_tags(tags)
    THEN NewSegmentParams(Midnight(DateOf(start)),
             IF end = None THEN end_of_day(Midnight(DateOf(start))) ELSE end_of_day(end),
             tags, "", FALSE, request_full_days(tags))
    ELSE NewSegmentParams(start, end, tags, "", FALSE, request_full_days(tags))

\* before the first call there is no request
NoRequest == NewSegmentParams(None, None, {}, "", FALSE, FALSE)

(***************************************************************************)
(* The daily summary (timeturner.get_daily_summary).  The segments of one  *)
(* day are records [start, end, tags] with start and end in minutes from   *)
(* the midnight that starts the day (end = None: an open segment, whose    *)
(* duration runs to the clock); durations are minutes.                     *)
(***************************************************************************)
timedelta(hours, minutes) == hours * 60 + minutes

DaySegment(start, end, tags) == [start |-> start, end |-> end, tags |-> tags]

\* TimeSegment.duration
duration(segment, clk) ==
    IF segment.end = None THEN clk - segment.start ELSE segment.end - segment.start

DefaultTagSettings ==
    [TagSettings(FALSE, 0, FALSE, FALSE) EXCEPT !.track_work_time = TRUE,
                                                !.track_over_time = TRUE]

get_tag(tag) ==
    IF tag \in DOMAIN tag_settings THEN tag_settings[tag] ELSE DefaultTagSettings

get_highest_priority_tag(tags, filter_full_day) ==
    LET found == {get_tag(t) : t \in tags}
        kept == IF filter_full_day THEN {t \in found : t.full_day} ELSE found
    IN IF kept # {}
       THEN CHOOSE t \in kept : \A u \in kept : u.priority <= t.priority
       ELSE DefaultTagSettings

\* the three track_* flags get_daily_summary works with
tracking(tags) ==
    LET highest_priority_tag == get_highest_priority_tag(tags, TRUE)
    IN IF tags # {} /\ highest_priority_tag.full_day
       THEN [work_time |-> highest_priority_tag.track_work_time,
             break_time |-> highest_priority_tag.track_break_time,
             over_time |-> highest_priority_tag.track_over_time]
       ELSE [work_time |-> TRUE, break_time |-> FALSE, over_time |-> TRUE]

\* variant: another tag name is configured as the holiday tag
holiday_tag_unset == "public_holiday"


holiday_tag == "holiday"

NoDescription == ""

DailySummary(day_type, work_time, break_time, over_time, start, end, description, by_tag) ==
    [day_type |-> day_type, work_time |-> work_time, break_time |-> break_time,
     over_time |-> over_time, start |-> start, end |-> end,
     description |-> description, by_tag |-> by_tag]

\* segment.start.date() == day: the day runs from minute 0 to 24:00
on_day(segment) == segment.start \div timedelta(24, 0) = 0

\* by_tag[tag] += d for every tag of the segment
add_by_tag(by_tag, tags, d) ==
    [t \in DOMAIN by_tag \cup tags |->
        (IF t \in DOMAIN by_tag THEN by_tag[t] ELSE 0) + (IF t \in tags THEN d ELSE 0)]

\* the loop over the segments; a carries work_time, passive_work_time,
\* break_time, start, by_tag, holiday (the loop has returned the holiday
\* summary) and error (the loop has raised ValueError: a segment is not on
\* the given day)
RECURSIVE segment_loop(_, _, _, _, _)
segment_loop(segs, i, clk, track, a) ==
    IF i > Len(segs) \/ a.holiday \/ a.error
    THEN a
    ELSE LET segment == segs[i]
             worktime_is_passive ==
                 \E tag \in segment.tags : get_tag(tag).track_work_time_passive
             d == duration(segment, clk)
         IN IF ~on_day(segment)
            THEN [a EXCEPT !.error = TRUE]
            ELSE IF holiday_tag \in segment.tags
            THEN [a EXCEPT !.holiday = TRUE]
            ELSE segment_loop(segs, i + 1, clk, track,
                   [a EXCEPT
                      !.start = IF a.start = None THEN segment.start ELSE a.start,
                      !.work_time =
                          IF track.work_time /\ ~worktime_is_passive THEN @ + d ELSE @,
                      !.passive_work_time =
                          IF track.work_time /\ worktime_is_passive THEN @ + d ELSE @,
                      !.break_time =
                          IF ~track.work_time /\ track.break_time THEN @ + d ELSE @,
                      !.by_tag = add_by_tag(@, segment.tags, d)])

\* variant: a pair whose first segment has no end is skipped
RECURSIVE pairwise_loop_skip_open(_, _, _)
pairwise_loop_skip_open(segs, i, a) ==
    IF i >= Len(segs)
    THEN a
    ELSE IF segs[i].end = None
         THEN pairwise_loop_skip_open(segs, i + 1, a)
         ELSE LET new_break == segs[i + 1].start - segs[i].end
              IN pairwise_loop_skip_open(segs, i + 1,
                     IF new_break > timedelta(0, 1)
                     THEN [a EXCEPT !.break_time = @ + new_break]
                     ELSE [a EXCEPT !.work_time = @ + new_break])

\* variant: a gap of exactly one minute already counts as a break
RECURSIVE pairwise_loop_from_one_minute(_, _, _)
pairwise_loop_from_one_minute(segs, i, a) ==
    IF i >= Len(segs) \/ a.error
    THEN a
    ELSE IF segs[i].end = None
         THEN [a EXCEPT !.error = TRUE]
         ELSE LET new_break == segs[i + 1].start - segs[i].end
              IN pairwise_loop_from_one_minute(segs, i + 1,
                     IF new_break >= timedelta(0, 1)
                     THEN [a EXCEPT !.break_time = @ + new_break]
                     ELSE [a EXCEPT !.work_time = @ + new_break])

\* the loop over the pairs of consecutive segments: a carries work_time,
\* break_time and error (an open segment is followed by another one)
RECURSIVE pairwise_loop(_, _, _)
pairwise_loop(segs, i, a) ==
    IF i >= Len(segs) \/ a.error
    THEN a
    ELSE IF segs[i].end = None
         THEN [a EXCEPT !.error = TRUE]
         ELSE LET new_break == segs[i + 1].start - segs[i].end
              IN pairwise_loop(segs, i + 1,
                    IF new_break > timedelta(0, 1)
                    THEN [a EXCEPT !.break_time = @ + new_break]
                    ELSE [a EXCEPT !.work_time = @ + new_break])

\* variant: the 45 minute rule already starts above six hours
deduct_break_from_six_hours(a) ==
    IF a.work_time > timedelta(6, 0)
    THEN IF a.break_time < timedelta(0, 45)
         THEN [a EXCEPT !.work_time = @ - (timedelta(0, 45) - a.break_time),
                        !.break_time = timedelta(0, 45)]
         ELSE a
    ELSE IF a.work_time > timedelta(4, 0) /\ a.break_time < timedelta(0, 15)
         THEN [a EXCEPT !.work_time = @ - (timedelta(0, 15) - a.break_time),
                        !.break_time = timedelta(0, 15)]
         ELSE a

\* the two rules that move missing break time out of the work time
deduct_break(a) ==
    IF a.work_time > timedelta(6, 15)
    THEN IF a.break_time < timedelta(0, 45)
         THEN [a EXCEPT !.work_time = @ - (timedelta(0, 45) - a.break_time),
                        !.break_time = timedelta(0, 45)]
         ELSE a
    ELSE IF a.work_time > timedelta(4, 0)
         THEN IF a.break_time < timedelta(0, 15)
              THEN [a EXCEPT !.work_time = @ - (timedelta(0, 15) - a.break_time),
                             !.break_time = timedelta(0, 15)]
              ELSE a
         ELSE a

\* variant: passive work time is always added in full
add_passive_uncapped(work_time, passive_work_time) ==
    work_time + passive_work_time

\* passive work time is added until both add up to 10 hours
add_passive(work_time, passive_work_time) ==
    IF work_time > timedelta(10, 0)
    THEN work_time
    ELSE IF work_time + passive_work_time > timedelta(10, 0)
         THEN timedelta(10, 0)
         ELSE work_time + passive_work_time

required_duration(d) == timedelta(worktime_per_weekday[weekday(d)], 0)

ValueError == [error |-> "ValueError"]

\* what the two loops have accumulated: work_time, break_time,
\* passive_work_time, start, by_tag, holiday (the holiday summary was
\* returned) and error (ValueError was raised)
accumulated(segs, clk) ==
    LET a1 == segment_loop(segs, 1, clk,
                 tracking(UNION {segs[i].tags : i \in DOMAIN segs}),
                 [work_time |-> 0, passive_work_time |-> 0, break_time |-> 0,
                  start |-> None, by_tag |-> [t \in {} |-> 0], holiday |-> FALSE,
                  error |-> FALSE])
        a2 == pairwise_loop(segs, 1,
                 [work_time |-> a1.work_time, break_time |-> a1.break_time,
                  error |-> FALSE])
    IN [work_time |-> a2.work_time, break_time |-> a2.break_time,
        passive_work_time |-> a1.passive_work_time, start |-> a1.start,
        by_tag |-> a1.by_tag, holiday |-> a1.holiday,
        error |-> a1.error \/ (~a1.holiday /\ a2.error)]

\* variant: over_time is never replaced
clamp_over_time_never(has_full_day_sick, over_time) == over_time

\* when you are sick, you cannot have negative overtime
clamp_over_time(has_full_day_sick, over_time) ==
    IF has_full_day_sick /\ over_time < 0 THEN 0 ELSE over_time

\* the summary of the day from what the two loops have accumulated
summary_of(d, segs, a) ==
    LET tags == UNION {segs[i].tags : i \in DOMAIN segs}
        track == tracking(tags)
        end == IF segs # << >> /\ segs[Len(segs)].end # None
               THEN segs[Len(segs)].end % timedelta(24, 0)
               ELSE None
        a3 == deduct_break(a)
        work_time == add_passive(a3.work_time, a.passive_work_time)
        day_type == IF required_duration(d) # 0 THEN "WORK" ELSE "WEEKEND"
        required_work_duration == IF track.over_time THEN required_duration(d) ELSE 0
        has_full_day_sick == "sick" \in tags
    IN IF a.error
       THEN ValueError
       ELSE IF a.holiday
            THEN DailySummary("HOLIDAY", 0, 0, 0, None, None, "Holiday", [t \in {} |-> 0])
            ELSE DailySummary(day_type, work_time, a3.break_time,
                     clamp_over_time(has_full_day_sick,
                                     work_time - required_work_duration),
                     a.start, end, NoDescription, a.by_tag)

get_daily_summary(d, segs, clk) == summary_of(d, segs, accumulated(segs, clk))

\* before get_daily_summary has run
NoSummary == [error |-> "not run"]

NoSummaryYet ==
    /\ segments = << >>
    /\ weekDay = 0
    /\ clock = 0
    /\ summary = NoSummary

(***************************************************************************)
(* Listing (timeturner.list_, split_segments_at_midnight): the rows of the *)
(* store in ticks, the segments of a day handed to get_daily_summary in    *)
(* minutes from the midnight that starts the day.                          *)
(***************************************************************************)
\* iter_over_days gives up after this many days
TooManyDays == 500

\* iter_over_days raises RuntimeError("Too many days")
too_many_days(start, end) == Len(iter_over_days(start, end)) > TooManyDays

RuntimeError == [error |-> "RuntimeError"]

\* PensiveRow(pk=, start=, end=, tags=, description=, passive=): the piece
\* of a row that split_segments_at_midnight yields
piece(row, start, end) ==
    PensiveRow(row.pk, start, end, row.passive, DefaultFullDays, row.tags,
               row.description)

\* variant: every later piece runs to the midnight that ends its day
split_row_to_midnight(row) ==
    IF row.end = None \/ DateOf(row.end) = DateOf(row.start)
    THEN <<row>>
    ELSE LET days == iter_over_days(end_of_day(row.start), row.end)
         IN <<piece(row, row.start, end_of_day(row.start))>> \o
            [i \in 1..Len(days) |->
                piece(row, Midnight(days[i]), Midnight(days[i] + 1))]

\* what split_segments_at_midnight yields for one row
split_row(row) ==
    IF row.end # None /\ DateOf(row.end) = DateOf(row.start)
    THEN <<row>>
    ELSE IF row.end = None
         THEN <<row>>
         ELSE LET days == iter_over_days(end_of_day(row.start), row.end)
              IN <<piece(row, row.start, end_of_day(row.start))>> \o
                 [i \in 1..Len(days) |->
                     piece(row, Midnight(days[i]),
                           IF days[i] = DateOf(row.end)
                           THEN row.end
                           ELSE Midnight(days[i] + 1))]

RECURSIVE split_segments_at_midnight(_)
split_segments_at_midnight(rows) ==
    IF rows = << >>
    THEN << >>
    ELSE split_row(Head(rows)) \o split_segments_at_midnight(Tail(rows))

\* the last index of the run of rows that starts at i and stays on one day
RECURSIVE run_end(_, _)
run_end(rows, i) ==
    IF i < Len(rows) /\ DateOf(rows[i + 1].start) = DateOf(rows[i].start)
    THEN run_end(rows, i + 1)
    ELSE i

\* for day, segments in groupby(rows, date of start):
\*     segments_per_day[str(day)] = list(segments)
\* groupby starts a new group whenever the day changes
RECURSIVE group_into(_, _, _)
group_into(segments_per_day, rows, i) ==
    IF i > Len(rows)
    THEN segments_per_day
    ELSE LET j == run_end(rows, i)
             day == DateOf(rows[i].start)
         IN group_into((day :> SubSeq(rows, i, j)) @@ segments_per_day, rows, j + 1)

\* minutes to a tick
MinutesPerTick == timedelta(24, 0) \div TicksPerDay

\* a row of the day as get_daily_summary reads it
day_segment(row, d) ==
    DaySegment((row.start - Midnight(d)) * MinutesPerTick,
               IF row.end = None THEN None ELSE (row.end - Midnight(d)) * MinutesPerTick,
               row.tags)

SegmentsByDay(d, rows, n) ==
    [day |-> d,
     weekday |-> weekday(d),
     segments |-> rows,
     summary |-> get_daily_summary(d, [i \in DOMAIN rows |-> day_segment(rows[i], d)],
                                   (n - Midnight(d)) * MinutesPerTick),
     tags |-> UNION {rows[i].tags : i \in DOMAIN rows}]

\* a call that returns a list (it does not raise)
Returned(entries) == [entries |-> entries]

\* get_daily_summary raises ValueError out of list_; otherwise list_
\* returns daily_segments
raised_or_returned(daily_segments) ==
    IF \E i \in DOMAIN daily_segments : daily_segments[i].summary = ValueError
    THEN ValueError
    ELSE Returned(daily_segments)

list_(start, end, rows, n) ==
    IF too_many_days(start, end)
    THEN RuntimeError
    ELSE LET days == iter_over_days(start, end)
             midnight_devided_segments ==
                 split_segments_at_midnight(get_segments_between(rows, start, end, FALSE))
             segments_per_day ==
                 group_into([d \in {days[i] : i \in DOMAIN days} |-> << >>],
                            midnight_devided_segments, 1)
         IN raised_or_returned(
                [i \in DOMAIN days |-> SegmentsByDay(days[i], segments_per_day[days[i]], n)])

\* before any query has run
\* op: the query that has run
NoRange == [op |-> "none", start |-> None, end |-> None]

NoListing == [error |-> "not run"]

\* the table tags after add_segment has stored the rows: insert_or_get_tag_pk
\* inserts every tag that is not in the table yet
tags_after(table, rows) == table \cup UNION {rows[i].tags : i \in DOMAIN rows}

\* no run of add has stopped before its end
NoStop == [at |-> "none", mutated |-> FALSE, inserts |-> 0]

\* create_table: the table tags is empty
EmptyTagTable ==
    /\ tag_table = {}
    /\ stopped = NoStop

NoQueryYet ==
    /\ range = NoRange
    /\ fetched = << >>
    /\ listed = NoListing

(***************************************************************************)
(* Spec: any sequence of add calls, ordinary and full-day requests mixed:  *)
(* ordinary requests within the NumDays days from a Friday on, full-day    *)
(* requests within the NumDaysFullDay days from that Friday on.            *)
(***************************************************************************)
FirstDay == CHOOSE d \in 0..6 : weekday(d) = 4

FirstTick == Midnight(FirstDay)

LastTick == Midnight(FirstDay + NumDays)

Ticks == FirstTick..LastTick

NowValues == {FirstTick + TicksPerDay, LastTick}

OrdinaryTagSets == {{}, {"prio1"}}

FullDayTagSets == {{"holiday"}, {"vacation"}, {"sick"}}

\* add(): now is read from the clock, which never runs backwards
Add(p, n) ==
    /\ n >= now
    /\ LET r == _add(p, n, Store(db, nextPk))
       IN /\ db' = r.st.rows
          /\ nextPk' = r.st.nextPk
          /\ ret' = r.ret
    /\ req' = p
    /\ prev' = db
    /\ prevPk' = nextPk
    /\ now' = n
    /\ calls' = calls + 1
    /\ tag_table' = tags_after(tag_table, ret')
    /\ UNCHANGED <<plan, segments, weekDay, clock, summary, range, fetched, listed,
                   stopped>>

\* _add reads now only when the request is open, so the clock is advanced
\* only there
AddOrdinary ==
    /\ calls < MaxCalls
    /\ \E start \in Ticks \ {LastTick}, tags \in OrdinaryTagSets :
         \E end \in {None} \cup {e \in Ticks : e > start} :
            \E n \in IF end = None THEN NowValues ELSE {now} :
               Add(parse_add_args(start, end, tags), n)
    /\ UNCHANGED parts

AddFullDay ==
    /\ calls < MaxCalls
    /\ \E d1 \in FirstDay..(FirstDay + NumDaysFullDay - 1), tags \in FullDayTagSets :
         \E d2 \in d1..(FirstDay + NumDaysFullDay - 1) :
            Add(parse_add_args(Midnight(d1), Midnight(d2), tags), now)
    /\ UNCHANGED parts

Init ==
    /\ db = {}
    /\ nextPk = 1
    /\ EmptyTagTable
    /\ now = FirstTick + TicksPerDay
    /\ req = NoRequest
    /\ ret = << >>
    /\ prev = {}
    /\ prevPk = 1
    /\ calls = 0
    /\ plan = << >>
    /\ parts = << >>
    /\ NoQueryYet
    /\ NoSummaryYet

Next == AddOrdinary \/ AddFullDay

Spec == Init /\ [][Next]_vars

(***************************************************************************)
(* SpecFull: any sequence of full-day add calls on the NumFullDays days    *)
(* from day 0, a Wednesday, on.                                            *)
(***************************************************************************)
FullDays == 0..(NumFullDays - 1)

FullDayRequests(tags) ==
    {parse_add_args(Midnight(w[1]), Midnight(w[2]), tags) :
        w \in {v \in FullDays \X FullDays : v[1] <= v[2]}}

AddFullDayWide ==
    /\ calls < MaxFullCalls
    /\ \E tags \in FullDayTagSets : \E p \in FullDayRequests(tags) : Add(p, now)
    /\ UNCHANGED parts

SpecFull == Init /\ [][AddFullDayWide]_vars

(***************************************************************************)
(* SpecOrder: a vacation and a holiday, each over a range of days, added   *)
(* to the empty store in either order.                                     *)
(***************************************************************************)
Plans ==
    {<<v, h>> : v \in FullDayRequests({"vacation"}), h \in FullDayRequests({"holiday"})}
    \cup
    {<<h, v>> : v \in FullDayRequests({"vacation"}), h \in FullDayRequests({"holiday"})}

InitOrder ==
    /\ db = {}
    /\ nextPk = 1
    /\ EmptyTagTable
    /\ now = LastTick
    /\ req = NoRequest
    /\ ret = << >>
    /\ prev = {}
    /\ prevPk = 1
    /\ calls = 0
    /\ plan \in Plans
    /\ parts = << >>
    /\ NoQueryYet
    /\ NoSummaryYet

AddPlanned ==
    /\ calls < Len(plan)
    /\ Add(plan[calls + 1], now)
    /\ UNCHANGED parts

SpecOrder == InitOrder /\ [][AddPlanned]_vars

(***************************************************************************)
(* SpecSplit: split_segment_params_per_weekday on one request with a       *)
(* work-days-only tag, any start < end within the NumSplitDays days from   *)
(* day 0 on, and the add of that request to the empty store.               *)
(***************************************************************************)
SplitTicks == 0..Midnight(NumSplitDays)

SplitRequests ==
    {NewSegmentParams(w[1], w[2], {"vacation"}, d, pa, request_full_days({"vacation"})) :
        w \in {v \in SplitTicks \X SplitTicks : v[1] < v[2]},
        d \in {"", "beach"}, pa \in BOOLEAN}

InitSplit ==
    /\ db = {}
    /\ nextPk = 1
    /\ EmptyTagTable
    /\ now = LastTick
    /\ req = NoRequest
    /\ ret = << >>
    /\ prev = {}
    /\ prevPk = 1
    /\ calls = 0
    /\ plan \in {<<p>> : p \in SplitRequests}
    /\ parts = << >>
    /\ NoQueryYet
    /\ NoSummaryYet

SplitAndAdd ==
    /\ calls = 0
    /\ parts' = split_segment_params_per_weekday(plan[1])
    /\ Add(plan[1], now)

SpecSplit == InitSplit /\ [][SplitAndAdd]_vars

(***************************************************************************)
(* SpecSummary: get_daily_summary on the segments of one day: at most      *)
(* MaxSegments ordinary segments in ascending order without overlap, the   *)
(* last one possibly open, after an optional full-day segment that starts  *)
(* the day.                                                                *)
(***************************************************************************)
\* minutes of the day at which the ordinary segments start and end
TimePoints == {480, 481, 483, 495, 525, 721, 722, 856, 857, 1081, 1082, 1200, 1260}

OrdinaryDaySegments ==
    {DaySegment(w[1], w[2], t) :
        w \in {v \in TimePoints \X TimePoints : v[1] < v[2]},
        t \in {{}, {"travel"}}}

\* the sequences of at most k ordinary segments, each starting no earlier
\* than the one before it ends
RECURSIVE DaySequences(_)
DaySequences(k) ==
    IF k = 0
    THEN {<< >>}
    ELSE LET shorter == DaySequences(k - 1)
             longest == {q \in shorter : Len(q) = k - 1}
         IN shorter \cup
            {Append(w[1], w[2]) :
                w \in {v \in longest \X OrdinaryDaySegments :
                          v[1] = << >> \/ v[1][Len(v[1])].end <= v[2].start}}

FullDaySegments ==
    {<< >>} \cup {<<DaySegment(0, timedelta(24, 0), {t})>> :
                     t \in {"holiday", "vacation", "sick"}}

\* the last segment of q left open
Opened(q) == [q EXCEPT ![Len(q)].end = None]

InitSummary ==
    /\ db = {}
    /\ nextPk = 1
    /\ EmptyTagTable
    /\ now = LastTick
    /\ req = NoRequest
    /\ ret = << >>
    /\ prev = {}
    /\ prevPk = 1
    /\ calls = 0
    /\ plan = << >>
    /\ parts = << >>
    /\ NoQueryYet
    /\ weekDay \in {d \in 0..6 : weekday(d) \in {2, 5}}
    /\ summary = NoSummary
    /\ \E f \in FullDaySegments, q \in DaySequences(MaxSegments) :
          \/ segments = f \o q /\ clock = 0
          \/ /\ q # << >>
             /\ segments = f \o Opened(q)
             /\ clock = q[Len(q)].end

Summarise ==
    /\ summary = NoSummary
    /\ summary' = get_daily_summary(weekDay, segments, clock)
    /\ UNCHANGED <<db, nextPk, now, req, ret, prev, prevPk, calls, plan, parts,
                   segments, weekDay, clock, range, fetched, listed, tag_table,
                   stopped>>

SpecSummary == InitSummary /\ [][Summarise]_vars

(***************************************************************************)
(* SpecDayList: get_daily_summary on lists that break what it expects of   *)
(* its caller: segments of the day before or the day after, open segments  *)
(* in any position, in any order, with or without a holiday segment.       *)
(***************************************************************************)
ListedSegments ==
    {DaySegment(480, 540, {}), DaySegment(540, 600, {}), DaySegment(480, None, {}),
     DaySegment(600, None, {}), DaySegment(0, timedelta(24, 0), {"holiday"}),
     DaySegment(0 - 960, 0 - 900, {}), DaySegment(timedelta(24, 0), 1500, {}),
     DaySegment(1920, None, {})}

RECURSIVE Lists(_)
Lists(k) ==
    IF k = 0
    THEN {<< >>}
    ELSE LET shorter == Lists(k - 1)
         IN shorter \cup {Append(q, g) : q \in shorter, g \in ListedSegments}

InitDayList ==
    /\ db = {}
    /\ nextPk = 1
    /\ EmptyTagTable
    /\ now = LastTick
    /\ req = NoRequest
    /\ ret = << >>
    /\ prev = {}
    /\ prevPk = 1
    /\ calls = 0
    /\ plan = << >>
    /\ parts = << >>
    /\ NoQueryYet
    /\ weekDay \in {d \in 0..6 : weekday(d) \in {2, 5}}
    /\ summary = NoSummary
    /\ segments \in Lists(MaxListed)
    /\ clock = 660

SpecDayList == InitDayList /\ [][Summarise]_vars

(***************************************************************************)
(* SpecList: up to MaxListCalls add calls fill the store, then one query   *)
(* reads it: get_segments_between with or without end, or list_ over a     *)
(* range.  SpecRange: the same with list_ over ranges of TooManyDays days  *)
(* and one day more.                                                       *)
(***************************************************************************)
QueryTicks == (FirstTick - 1)..(Midnight(FirstDay + NumDaysFullDay) + 1)

GetSegmentsBetween ==
    /\ range = NoRange
    /\ \E start \in QueryTicks, end \in QueryTicks \cup {None} :
          /\ range' = [op |-> "get_segments_between", start |-> start, end |-> end]
          /\ fetched' = get_segments_between(db, start, end, FALSE)
    /\ UNCHANGED <<db, nextPk, now, req, ret, prev, prevPk, calls, plan, parts,
                   segments, weekDay, clock, summary, listed, tag_table, stopped>>

ListRange(start, end) ==
    /\ range = NoRange
    /\ range' = [op |-> "list", start |-> start, end |-> end]
    /\ fetched' = get_segments_between(db, start, end, FALSE)
    /\ parts' = IF too_many_days(start, end) THEN << >> ELSE split_segments_at_midnight(fetched')
    /\ listed' = list_(start, end, db, now)
    /\ UNCHANGED <<db, nextPk, now, req, ret, prev, prevPk, calls, plan,
                   segments, weekDay, clock, summary, tag_table, stopped>>

List == \E start \in QueryTicks, end \in QueryTicks : ListRange(start, end)

ListLong ==
    \E start \in {FirstTick, FirstTick + 1}, extra \in 0..1 :
        ListRange(start, Midnight(FirstDay + TooManyDays) + extra)

AddBeforeList ==
    /\ range = NoRange
    /\ calls < MaxListCalls
    /\ (AddOrdinary \/ AddFullDay)

SpecList == Init /\ [][AddBeforeList \/ GetSegmentsBetween \/ List]_vars

AddBeforeRange ==
    /\ range = NoRange
    /\ calls < MaxRangeCalls
    /\ (AddOrdinary \/ AddFullDay)

SpecRange == Init /\ [][AddBeforeRange \/ List \/ ListLong]_vars

(***************************************************************************)
(* SpecEnd: up to MaxListCalls add calls, then one call of end.            *)
(***************************************************************************)
\* end(time): close the open segment that started last
End ==
    /\ range = NoRange
    /\ \E t \in QueryTicks :
          LET latest == get_latest_segment(db, TRUE)
          IN IF latest = {}
             THEN /\ range' = [op |-> "end: ValueError", start |-> None, end |-> t]
                  /\ ret' = << >>
                  /\ db' = db
             ELSE \E last_entry \in latest :
                     IF last_entry.end # None
                     THEN /\ range' = [op |-> "end: ValueError", start |-> None, end |-> t]
                          /\ ret' = << >>
                          /\ db' = db
                     ELSE /\ range' = [op |-> "end", start |-> None, end |-> t]
                          /\ db' = update_segment(Store(db, nextPk), last_entry.pk,
                                                  [end |-> t]).rows
                          /\ ret' = <<CHOOSE r \in db' : r.pk = last_entry.pk>>
    /\ prev' = db
    /\ prevPk' = nextPk
    /\ UNCHANGED <<nextPk, now, req, calls, plan, parts, segments, weekDay, clock,
                   summary, fetched, listed, tag_table, stopped>>

SpecEnd == Init /\ [][AddBeforeList \/ End]_vars

(***************************************************************************)
(* SpecHolidays: up to MaxListCalls add calls, one of which may be a       *)
(* holiday the user has described, then one call of add_holidays.          *)
(***************************************************************************)
\* holidays.country_holidays(...).items(): the holidays of the year
holiday_obj ==
    <<[date |-> FirstDay, name |-> "New Year's Day"],
      [date |-> FirstDay + 2, name |-> "Epiphany"]>>

\* Python's None where a row is expected
NoRow == [pk |-> None]

\* the rows the query of get_full_day_segment_by_date matches; fetchone
\* returns one of them (the query has no ORDER BY), or None
get_full_day_segment_by_date(rows, date) ==
    LET matching == {r \in rows : /\ r.full_days
                                  /\ r.start <= Midnight(date)
                                  /\ (r.end = None \/ r.end = Midnight(date + 1))}
    IN IF matching = {} THEN {NoRow} ELSE matching

\* the body of the loop of add_holidays for one holiday, given the row
\* get_full_day_segment_by_date returned; update_segment returns None
holiday_step(st, holiday, existing_holiday, n) ==
    IF /\ existing_holiday # NoRow
       /\ holiday_tag \in existing_holiday.tags
       /\ existing_holiday.description = holiday.name
    THEN Result(st, << >>)
    ELSE IF /\ existing_holiday # NoRow
            /\ holiday_tag \in existing_holiday.tags
            /\ existing_holiday.description = ""
         THEN Result(update_segment(st, existing_holiday.pk, [description |-> holiday.name]),
                     <<NoRow>>)
         ELSE _add(NewSegmentParams(Midnight(holiday.date), end_of_day(Midnight(holiday.date)),
                                    {holiday_tag}, holiday.name, FALSE, TRUE), n, st)

AddHolidays ==
    /\ range = NoRange
    /\ \E e1 \in get_full_day_segment_by_date(db, holiday_obj[1].date) :
          LET r1 == holiday_step(Store(db, nextPk), holiday_obj[1], e1, now)
          IN \E e2 \in get_full_day_segment_by_date(r1.st.rows, holiday_obj[2].date) :
                LET r2 == holiday_step(r1.st, holiday_obj[2], e2, now)
                IN /\ db' = r2.st.rows
                   /\ nextPk' = r2.st.nextPk
                   /\ ret' = r1.ret \o r2.ret
    /\ range' = [op |-> "add_holidays", start |-> None, end |-> None]
    /\ prev' = db
    /\ prevPk' = nextPk
    /\ tag_table' = tags_after(tag_table, SelectSeq(ret', LAMBDA r : r # NoRow))
    /\ UNCHANGED <<now, req, calls, plan, parts, segments, weekDay, clock, summary,
                   fetched, listed, stopped>>

\* add <day> @holiday <description>
AddDescribedHoliday ==
    /\ \E d \in {holiday_obj[1].date, holiday_obj[2].date} :
          Add(NewSegmentParams(Midnight(d), end_of_day(Midnight(d)), {"holiday"},
                               "Neujahr :)", FALSE, TRUE), now)
    /\ UNCHANGED parts

AddBeforeHolidays ==
    /\ range = NoRange
    /\ calls < MaxListCalls
    /\ (AddOrdinary \/ AddFullDay \/ AddDescribedHoliday)

SpecHolidays == Init /\ [][AddBeforeHolidays \/ AddHolidays]_vars

(***************************************************************************)
(* SpecOrdinary: any sequence of add calls without full-day tags.          *)
(***************************************************************************)
SpecOrdinary == Init /\ [][AddOrdinary]_vars

(***************************************************************************)
(* SpecClosed: add calls without full-day tags whose requests all have an  *)
(* end after their start.                                                  *)
(***************************************************************************)
AddClosed ==
    /\ calls < MaxCalls
    /\ \E start \in Ticks \ {LastTick}, tags \in OrdinaryTagSets :
         \E end \in {e \in Ticks : e > start} :
            Add(parse_add_args(start, end, tags), now)
    /\ UNCHANGED parts

SpecClosed == Init /\ [][AddClosed]_vars

(***************************************************************************)
(* Vocabulary of the properties.                                           *)
(***************************************************************************)
\* the instant t lies before the end e (an open end lies after every instant)
Before(t, e) == e = None \/ t < e

\* some instant is covered by both segments
Overlap(a, b) ==
    LET s == Max({a.start, b.start})
    IN Before(s, a.end) /\ Before(s, b.end)

Ordinary(rows) == {r \in rows : ~r.full_days}

Triples(rows) == {<<r.start, r.end, r.tags>> : r \in rows}

\* a call has been made: req is its request, prev and prevPk the store before
\* it, db and nextPk the store after it, ret the list it returned
Called == req.start # None

\* C1: after every add call without full-day tags, no instant is covered by
\* two persisted non-full-day segments (an open segment covers every instant
\* from its start on)
C1_NoOverlap ==
    \A a \in Ordinary(db), b \in Ordinary(db) : a.pk # b.pk => ~Overlap(a, b)

Pks(rows) == {r.pk : r \in rows}

SameTriple(r, p) == r.start = p.start /\ r.end = p.end /\ r.tags = p.tags

\* the segments of the store before the call that equal the request
Twins == {x \in prev : SameTriple(x, req)}

\* C2: re-adding the start, end and tags of an existing segment deletes that
\* segment and inserts the new one; one segment with that start, end and tags
\* remains and no other segment is changed
C2_ReAddReplaces ==
    (Called /\ Twins # {}) =>
        /\ \A x \in Twins : x.pk \notin Pks(db)
        /\ Cardinality({r \in db : SameTriple(r, req)}) = 1
        /\ \A r \in db : SameTriple(r, req) => r.pk \notin Pks(prev)
        /\ prev \ Twins \subseteq db
        /\ Cardinality(db \ prev) = 1

SeqRange(q) == {q[i] : i \in 1..Len(q)}

\* the priority track of a request or a row: full-day or ordinary
SameTrack(x, p) == x.full_days = has_full_day_tags(p.tags)

\* C3: an add call with a full-day tag leaves every segment with
\* full_days = false as it was
C3_FullDayAddKeepsOrdinary ==
    (Called /\ has_full_day_tags(req.tags)) => Ordinary(prev) \subseteq db

\* a full-day request was persisted over an ordinary segment of its days
C3_Witness ==
    /\ Called /\ has_full_day_tags(req.tags) /\ ret # << >>
    /\ \E x \in Ordinary(prev) : Overlap(x, req) /\ ~has_full_day_tags(x.tags)

\* the call as it runs on the store without its full_days segments
OrdinaryRun == _add(req, now, Store(Ordinary(prev), prevPk))

\* C4: an add call without full-day tag changes no full_days segment, and
\* persists and returns what it would without the full_days segments
C4_OrdinaryAddIgnoresFullDays ==
    (Called /\ ~has_full_day_tags(req.tags)) =>
        /\ prev \ Ordinary(prev) \subseteq db
        /\ Ordinary(db) = OrdinaryRun.st.rows
        /\ ret = OrdinaryRun.ret

\* C7: a work-days-only request that lies on non-work days only returns an
\* empty list and leaves the store as it was
OnlyNonWorkDays(p) == \A t \in p.start..(p.end - 1) : ~is_work_day(t)

C7_WeekendOnlyIsNoOp ==
    (Called /\ has_work_days_only_tags(req.tags) /\ OnlyNonWorkDays(req)) =>
        (ret = << >> /\ db = prev /\ nextPk = prevPk)

\* a weekend-only vacation was requested over a full-day segment of lower
\* priority on those days
C7_Witness ==
    /\ Called /\ has_work_days_only_tags(req.tags) /\ OnlyNonWorkDays(req)
    /\ \E x \in prev : /\ x.full_days /\ Overlap(x, req)
                       /\ get_tag_prio(x.tags) < get_tag_prio(req.tags)

\* C8: a closed request that lies inside one existing segment of its track
\* with strictly higher priority returns an empty list and inserts nothing
C8_ContainedLoserRejected ==
    (/\ Called /\ req.end # None
     /\ \E c \in prev : /\ SameTrack(c, req) /\ c.end # None
                        /\ get_tag_prio(c.tags) > get_tag_prio(req.tags)
                        /\ c.start <= req.start /\ req.end <= c.end) =>
        (ret = << >> /\ nextPk = prevPk)

\* C9: the returned list holds exactly the segments the call inserted, each
\* once, and each is in the store as returned
C9_ReturnsInserted ==
    Called =>
        /\ Len(ret) = nextPk - prevPk
        /\ {r.pk : r \in SeqRange(ret)} = prevPk..(nextPk - 1)
        /\ SeqRange(ret) \subseteq db

\* a call that trimmed an existing segment and returned two inserted ones
C9_Witness ==
    /\ Called /\ Len(ret) = 2
    /\ \E x \in prev : \E y \in db : y.pk = x.pk /\ y # x

\* the segments of the request's track whose range meets [start, end)
Conflicting ==
    {c \in prev : /\ SameTrack(c, req)
                  /\ c.start < req.end
                  /\ (c.end = None \/ c.end > req.start)}

\* the request strictly inside the closed segment c
StrictlyInside(c) == c.end # None /\ c.start < req.start /\ req.end < c.end

\* what the call leaves of a conflicting segment c that loses: the part of c
\* before the request, else the part after it, else nothing
Remains(c) ==
    IF c.start < req.start
    THEN {[c EXCEPT !.end = req.start]}
    ELSE IF c.end = None \/ c.end > req.end
         THEN {[c EXCEPT !.start = req.end]}
         ELSE {}

NewRows == {r \in db : r.pk >= prevPk}

\* the new segment is persisted with the start and end of the request,
\* and every conflicting segment is trimmed, deleted or split around it
WinnerPersisted ==
    /\ \E r \in NewRows : SameTriple(r, req)
    /\ \A c \in Conflicting :
          /\ {r \in db : r.pk = c.pk} = Remains(c)
          /\ StrictlyInside(c) =>
                \E t \in NewRows : /\ t.start = req.end /\ t.end = c.end
                                   /\ t.tags = c.tags
                                   /\ t.description = c.description

NoStrongerConflict ==
    \A c \in Conflicting : get_tag_prio(c.tags) <= get_tag_prio(req.tags)

\* C10: a closed request that meets no conflicting segment of
\* higher priority is persisted with the requested start and end, the
\* conflicts trimmed to the outside of the request, deleted or split around it
C10_WinnerKeepsRange ==
    (Called /\ req.end # None /\ NoStrongerConflict) => WinnerPersisted

\* the store after the requests of a list were added in turn
RECURSIVE AddAll(_, _, _)
AddAll(ps, n, st) ==
    IF ps = << >> THEN st ELSE AddAll(Tail(ps), n, _add(Head(ps), n, st).st)

PlanDone == plan # << >> /\ calls = Len(plan)

TheVacation == IF "vacation" \in plan[1].tags THEN plan[1] ELSE plan[2]

TheHoliday == IF "holiday" \in plan[1].tags THEN plan[1] ELSE plan[2]

\* the maximal runs of work days of the vacation that lie outside the holiday
Free(d) ==
    /\ TheVacation.start <= Midnight(d) /\ Midnight(d) < TheVacation.end
    /\ is_work_day(Midnight(d))
    /\ ~(TheHoliday.start <= Midnight(d) /\ Midnight(d) < TheHoliday.end)

VacationRuns ==
    {<<Midnight(d1), Midnight(d2 + 1), {"vacation"}>> :
        <<d1, d2>> \in {w \in FullDays \X FullDays :
            /\ w[1] <= w[2]
            /\ \A d \in w[1]..w[2] : Free(d)
            /\ ~Free(w[1] - 1) /\ ~Free(w[2] + 1)}}

\* C5: a vacation range and a holiday range added to the empty store give
\* the same segments in either order: the holiday with its full range and
\* the vacation on the work days outside it
C5_OrderIndependent ==
    PlanDone =>
        /\ Triples(db) = Triples(AddAll(<<plan[2], plan[1]>>, now, Store({}, 1)).rows)
        /\ Triples(db) =
             {<<TheHoliday.start, TheHoliday.end, {"holiday"}>>} \cup VacationRuns

WorkInstants(p) == {t \in p.start..(p.end - 1) : is_work_day(t)}

\* C6: split_segment_params_per_weekday returns, in ascending order, the
\* maximal runs of work days inside [start, end): non-empty, disjoint,
\* separated by a non-work day, free of non-work instants, covering every
\* work-day instant of the range, each with the request's tags, description
\* and passive flag; adding the request to the empty store persists exactly
\* these sub-ranges
C6_SplitIsWorkDayRuns ==
    (calls = 1 /\ Len(plan) = 1) =>
        LET p == plan[1]
        IN /\ \A i \in 1..Len(parts) :
                /\ p.start <= parts[i].start /\ parts[i].start < parts[i].end
                /\ parts[i].end <= p.end
                /\ WorkInstants(parts[i]) = parts[i].start..(parts[i].end - 1)
                /\ parts[i].tags = p.tags
                /\ parts[i].description = p.description
                /\ parts[i].passive = p.passive
           /\ \A i \in 1..(Len(parts) - 1) :
                /\ parts[i].end < parts[i + 1].start
                /\ \E t \in parts[i].end..(parts[i + 1].start - 1) : ~is_work_day(t)
           /\ WorkInstants(p) =
                UNION {parts[i].start..(parts[i].end - 1) : i \in 1..Len(parts)}
           /\ Cardinality(db) = Len(parts)
           /\ {[start |-> r.start, end |-> r.end, tags |-> r.tags,
                description |-> r.description, passive |-> r.passive] : r \in db}
                = {[start |-> parts[i].start, end |-> parts[i].end,
                    tags |-> parts[i].tags, description |-> parts[i].description,
                    passive |-> parts[i].passive] : i \in 1..Len(parts)}

C6_Witness ==
    /\ calls = 1 /\ Len(plan) = 1
    /\ Len(parts) = 2
    /\ plan[1].description = "beach" /\ plan[1].passive
    /\ plan[1].start % TicksPerDay # 0
    /\ parts[1].end < parts[2].start
    /\ Cardinality(db) = 2

\* the open ordinary segments that start at or before the request's start
OpenAtOrBefore == {c \in Ordinary(prev) : c.end = None /\ c.start <= req.start}

\* the call has closed segment c at the start of the request
ClosedAtStart(c) == {r \in db : r.pk = c.pk} = {[c EXCEPT !.end = req.start]}

\* C11: an add call whose request starts at or after the start of an open
\* ordinary segment closes that segment at the request's start, whatever the
\* two priorities are
C11_OpenSegmentClosed ==
    (Called /\ ~has_full_day_tags(req.tags)) =>
        \A c \in OpenAtOrBefore : ClosedAtStart(c)

\* the open ordinary segments started on a calendar day before the request's
OpenSinceEarlierDay ==
    {c \in Ordinary(prev) : c.end = None /\ DateOf(c.start) < DateOf(req.start)}

\* C12: an open ordinary request does not close an open segment that was
\* started on an earlier calendar day: that segment stays as it was and the
\* new segment is persisted open
C12_OldOpenSegmentStaysOpen ==
    (Called /\ ~has_full_day_tags(req.tags) /\ req.end = None
        /\ OpenSinceEarlierDay # {}) =>
        /\ OpenSinceEarlierDay \subseteq db
        /\ \E r \in NewRows : r.start = req.start /\ r.end = None

\* the ordinary segments that start after the request's start
Later == {c \in Ordinary(prev) : c.start > req.start}

FirstLater == OrderByStart(Later)[1]

\* C13: an open ordinary request that starts before an existing segment ends
\* at the start of the first segment after it when that start is before now;
\* otherwise it stays open and that segment is unchanged
C13_OpenRequestCappedAtNext ==
    (Called /\ ~has_full_day_tags(req.tags) /\ req.end = None /\ Later # {}) =>
        IF FirstLater.start < now
        THEN \E r \in NewRows : r.end = FirstLater.start
        ELSE (\E r \in NewRows : r.end = None) /\ FirstLater \in db

\* the closed segments of the request's track that strictly contain the
\* request and do not have a higher priority
Containing ==
    {c \in prev : /\ SameTrack(c, req)
                  /\ StrictlyInside(c)
                  /\ get_tag_prio(c.tags) <= get_tag_prio(req.tags)}

\* the call has split c around the request and returned the two new rows
SplitAround(c) ==
    /\ {r \in db : r.pk = c.pk} = {[c EXCEPT !.end = req.start]}
    /\ Len(ret) = 2
    /\ SameTriple(ret[1], req)
    /\ ret[2].start = req.end /\ ret[2].end = c.end
    /\ ret[2].tags = c.tags /\ ret[2].description = c.description
    /\ {ret[1], ret[2]} \subseteq db

\* C14: a closed request strictly inside a segment C of at most its priority
\* leaves C shrunk to [C.start, start), the new segment [start, end) and a
\* new tail [end, C.end) with C's tags and description, and returns the two
\* inserted segments
C14_SplitAroundRequest ==
    (Called /\ req.end # None) => \A c \in Containing : SplitAround(c)

(***************************************************************************)
(* Daily summary: what Summarise stores, against the segments of the day.  *)
(***************************************************************************)
\* get_daily_summary has returned a summary (it has run and did not raise)
Summarised == summary \notin {NoSummary, ValueError}

DayTags == UNION {segments[i].tags : i \in DOMAIN segments}

\* work_time, break_time and passive_work_time as they stand after the two loops
Accumulated == accumulated(segments, clock)

\* the same after the break rules
AfterBreakRules == deduct_break(Accumulated)

RECURSIVE SumOf(_, _)
SumOf(f, S) ==
    IF S = {}
    THEN 0
    ELSE LET i == CHOOSE j \in S : TRUE IN f[i] + SumOf(f, S \ {i})

Gap == [i \in 1..(Len(segments) - 1) |-> segments[i + 1].start - segments[i].end]

Length == [i \in DOMAIN segments |-> duration(segments[i], clock)]

PassiveSegments == {i \in DOMAIN segments : "travel" \in segments[i].tags}

NoFullDayTag == \A t \in DayTags : ~get_tag(t).full_day

\* C15: when the accumulated work_time exceeds 6h15m and break_time is under
\* 45m, break_time becomes exactly 45m; otherwise, when work_time exceeds 4h
\* and break_time is under 15m, break_time becomes exactly 15m; otherwise
\* break_time is left alone; what is added to break_time is taken from
\* work_time, so that their sum is unchanged.
C15_BreakRules ==
    (Summarised /\ summary.day_type # "HOLIDAY") =>
        LET W == Accumulated.work_time
            B == Accumulated.break_time
        IN /\ summary.break_time =
                  IF W > 6 * 60 + 15
                  THEN (IF B < 45 THEN 45 ELSE B)
                  ELSE IF W > 4 * 60 /\ B < 15 THEN 15 ELSE B
           /\ summary.work_time =
                  add_passive(W + B - summary.break_time,
                              Accumulated.passive_work_time)
           /\ PassiveSegments = {} => summary.work_time + summary.break_time = W + B

C15_Witness ==
    /\ Summarised
    /\ "holiday" \notin DayTags
    /\ Accumulated.work_time > 6 * 60 + 15
    /\ Accumulated.break_time \in 1..44
    /\ summary.break_time = 45
    /\ summary.work_time = Accumulated.work_time + Accumulated.break_time - 45

\* C16: the gap between two consecutive segments is added to work_time when
\* it is at most one minute and to break_time when it is longer.
C16_GapsFolded ==
    (Summarised /\ summary.day_type # "HOLIDAY") =>
        LET track == tracking(DayTags)
            short == {i \in DOMAIN Gap : Gap[i] <= 1}
            long == {i \in DOMAIN Gap : Gap[i] > 1}
            W == (IF track.work_time
                  THEN SumOf(Length, DOMAIN segments \ PassiveSegments)
                  ELSE 0) + SumOf(Gap, short)
            B == (IF ~track.work_time /\ track.break_time
                  THEN SumOf(Length, DOMAIN segments)
                  ELSE 0) + SumOf(Gap, long)
            a == deduct_break([work_time |-> W, break_time |-> B])
        IN /\ summary.break_time = a.break_time
           /\ summary.work_time =
                  add_passive(a.work_time, Accumulated.passive_work_time)

C16_Witness ==
    /\ Summarised
    /\ DayTags = {}
    /\ Len(segments) = 2
    /\ Gap[1] = 1
    /\ summary.break_time = 15
    /\ summary.work_time = Length[1] + Length[2] + 1 - 15

\* C17: passive work time never raises work_time above 10 hours: work_time
\* is the active work time when that alone exceeds 10h, and the smaller of
\* active + passive and 10h otherwise.
C17_PassiveCapped ==
    (Summarised /\ summary.day_type # "HOLIDAY") =>
        LET A == AfterBreakRules.work_time
            P == Accumulated.passive_work_time
        IN summary.work_time =
               IF A > 10 * 60
               THEN A
               ELSE IF A + P < 10 * 60 THEN A + P ELSE 10 * 60

C17_Witness ==
    /\ Summarised
    /\ Accumulated.passive_work_time > 0
    /\ AfterBreakRules.work_time \in 1..(10 * 60)
    /\ AfterBreakRules.work_time + Accumulated.passive_work_time > 10 * 60
    /\ summary.work_time = 10 * 60

\* C18: if a segment of the day carries the holiday tag, the summary is the
\* HOLIDAY one: all durations zero, start and end unset, by_tag empty,
\* description "Holiday", whatever the other segments are.
C18_HolidaySummary ==
    (summary # NoSummary /\ "holiday" \in DayTags) =>
        summary = [day_type |-> "HOLIDAY", work_time |-> 0, break_time |-> 0,
                   over_time |-> 0, start |-> None, end |-> None,
                   description |-> "Holiday", by_tag |-> [t \in {} |-> 0]]

C18_Witness ==
    /\ summary # NoSummary
    /\ Len(segments) = 3
    /\ "holiday" \in segments[1].tags
    /\ segments[3].end = None
    /\ summary.day_type = "HOLIDAY"

\* C19 as stated: with a sick tag over_time is never negative; without one
\* it is work_time minus the weekday's required work duration.
C19_OverTimeFromWeekday ==
    Summarised =>
        IF "sick" \in DayTags
        THEN summary.over_time >= 0
        ELSE summary.over_time = summary.work_time - required_duration(weekDay)

\* C19: with a sick tag over_time is work_time, or zero when that is
\* negative; without a sick tag over_time is work_time minus the weekday's
\* required work duration when no segment of the day carries a full-day
\* tag, and is work_time itself when one does.
C19_OverTimeClamped ==
    Summarised =>
        IF "sick" \in DayTags
        THEN /\ summary.over_time >= 0
             /\ summary.over_time \in {0, summary.work_time}
        ELSE IF NoFullDayTag
             THEN summary.over_time =
                      summary.work_time - required_duration(weekDay)
             ELSE summary.over_time = summary.work_time

C19_Witness ==
    /\ Summarised
    /\ "sick" \in DayTags
    /\ summary.work_time < 0
    /\ summary.over_time = 0

\* C20: on a day with a vacation or holiday full-day segment work_time and
\* over_time are both zero, whatever ordinary segments the day also holds.
C20_LeaveDayIsZero ==
    (Summarised /\ DayTags \cap {"vacation", "holiday"} # {}) =>
        summary.work_time = 0 /\ summary.over_time = 0

(***************************************************************************)
(* Daily summary on lists its caller should not hand over (SpecDayList).   *)
(***************************************************************************)
OtherDay == {i \in DOMAIN segments : ~on_day(segments[i])}

Holidays == {i \in DOMAIN segments : "holiday" \in segments[i].tags}

OpenFollowed == {i \in DOMAIN segments : segments[i].end = None /\ i < Len(segments)}

HolidaySummary ==
    [day_type |-> "HOLIDAY", work_time |-> 0, break_time |-> 0, over_time |-> 0,
     start |-> None, end |-> None, description |-> "Holiday",
     by_tag |-> [t \in {} |-> 0]]

\* C21: get_daily_summary raises, and returns no summary, for every list
\* that holds a segment whose start is not on the given day, wherever that
\* segment stands and whatever the other segments are.
C21_OtherDayRaises ==
    (summary # NoSummary /\ OtherDay # {}) => summary = ValueError

\* C22 as stated: get_daily_summary raises whenever a segment with no end
\* is followed by another segment; a segment with no end in last position
\* is accepted.
C22_OpenFollowedRaises ==
    summary # NoSummary =>
        /\ OpenFollowed # {} => summary = ValueError
        /\ (OpenFollowed = {} /\ OtherDay = {}) => summary # ValueError

\* C22: get_daily_summary raises whenever a segment with no end is followed
\* by another segment, unless the holiday summary is returned first: that
\* happens when a segment carries the holiday tag and every segment before
\* it is on the given day.  A list whose segments are all on the given day
\* and whose only segment with no end is the last one is accepted.
C22_OpenFollowedRaisesUnlessHoliday ==
    summary # NoSummary =>
        LET holiday_first ==
                \E h \in Holidays : \A i \in OtherDay : h < i
        IN /\ (OpenFollowed # {} /\ ~holiday_first) => summary = ValueError
           /\ (OpenFollowed # {} /\ holiday_first) => summary = HolidaySummary
           /\ (OpenFollowed = {} /\ OtherDay = {}) => summary # ValueError

C22_Witness ==
    /\ summary = ValueError
    /\ OtherDay = {}
    /\ Holidays = {}
    /\ Len(segments) = 3
    /\ OpenFollowed = {2}

(***************************************************************************)
(* Listing (SpecList, SpecRange).                                          *)
(***************************************************************************)
\* list_ has run and iter_over_days did not give up
Listed == range.op = "list" /\ listed # RuntimeError

\* the fields of a row split_segments_at_midnight is to keep
Core(r) ==
    [pk |-> r.pk, start |-> r.start, end |-> r.end, tags |-> r.tags,
     description |-> r.description, passive |-> r.passive]

LaterOf(a, b) == IF a >= b THEN a ELSE b

EarlierOf(a, b) == IF a <= b THEN a ELSE b

\* a row that is open or ends by the midnight following its start
WithinDay(r) == r.end = None \/ r.end <= end_of_day(r.start)

\* one piece per calendar day the row spans, cut at the midnights
PiecesPerDay(r) ==
    IF WithinDay(r)
    THEN <<Core(r)>>
    ELSE [j \in 1..(DateOf(r.end - 1) - DateOf(r.start) + 1) |->
             [Core(r) EXCEPT
                 !.start = LaterOf(r.start, Midnight(DateOf(r.start) + j - 1)),
                 !.end = EarlierOf(r.end, Midnight(DateOf(r.start) + j))]]

RECURSIVE AllPiecesPerDay(_)
AllPiecesPerDay(rows) ==
    IF rows = << >>
    THEN << >>
    ELSE PiecesPerDay(Head(rows)) \o AllPiecesPerDay(Tail(rows))

DaysOfRange ==
    IF range.end <= range.start
    THEN << >>
    ELSE [i \in 1..(DateOf(range.end - 1) - DateOf(range.start) + 1) |->
             DateOf(range.start) + i - 1]

\* C24: list_ returns exactly one entry per calendar day of
\* [range_start, range_end), in ascending order and also for days without
\* segments; a day whose midnight is range_end is not included, an empty
\* range gives no entry, and a range of more than 500 days raises.
C24_OneEntryPerDay ==
    range.op = "list" =>
        IF Len(DaysOfRange) > 500
        THEN listed = RuntimeError
        ELSE /\ "entries" \in DOMAIN listed
             /\ [i \in DOMAIN listed.entries |-> listed.entries[i].day] = DaysOfRange

\* the pieces of the fetched rows that start on day d, in the order
\* split_segments_at_midnight yields them
RECURSIVE PiecesOn(_, _)
PiecesOn(rows, d) ==
    IF rows = << >>
    THEN << >>
    ELSE (IF DateOf(Head(rows).start) = d THEN <<Head(rows)>> ELSE << >>)
             \o PiecesOn(Tail(rows), d)

\* C25: for every day of the listed range, the segment list paired with
\* the day holds every midnight-split piece of the stored segments whose
\* start falls on that day, and the day's summary and tags are computed
\* from that complete list.
C25_DayHoldsAllPieces ==
    (Listed /\ listed # ValueError) =>
        \A i \in DOMAIN listed.entries :
            LET e == listed.entries[i]
                all == PiecesOn(parts, e.day)
            IN /\ e.segments = all
               /\ e.tags = UNION {all[k].tags : k \in DOMAIN all}
               /\ e.summary =
                      get_daily_summary(e.day,
                          [k \in DOMAIN all |-> day_segment(all[k], e.day)],
                          (now - Midnight(e.day)) * MinutesPerTick)

\* a sequence of distinct rows in ascending order of start
AscendingByStart(q) ==
    \A i, j \in DOMAIN q : i < j => (q[i].start <= q[j].start /\ q[i] # q[j])

\* the stored segments whose range meets [start, end)
Intersecting(start, end) ==
    {r \in db : r.start < end /\ (r.end = None \/ r.end > start)}

\* the stored segments that cover the instant t
Covering(t) == {r \in db : r.start <= t /\ (r.end = None \/ r.end > t)}

\* C26: get_segments_between(start, end) returns, in ascending order of
\* start, exactly the stored segments with segment.start < end and
\* (segment.end > start or no end); without end it returns the segments
\* covering the instant start, then the first segment starting after start.
C26_ExactlyIntersecting ==
    range.op = "get_segments_between" =>
        IF range.end # None
        THEN /\ AscendingByStart(fetched)
             /\ SeqRange(fetched) = Intersecting(range.start, range.end)
        ELSE LET after == {r \in db : r.start > range.start}
                 n == Cardinality(Covering(range.start))
             IN /\ SeqRange(SubSeq(fetched, 1, n)) = Covering(range.start)
                /\ AscendingByStart(SubSeq(fetched, 1, n))
                /\ IF after = {}
                   THEN Len(fetched) = n
                   ELSE /\ Len(fetched) = n + 1
                        /\ fetched[n + 1] \in after
                        /\ \A r \in after : fetched[n + 1].start <= r.start

(***************************************************************************)
(* end (SpecEnd).                                                          *)
(***************************************************************************)
EndCalled == range.op \in {"end", "end: ValueError"}

OpenBefore == {r \in prev : r.end = None}

\* C27: end(t) sets the end of the open segment with the latest start to t
\* and changes no other segment (a full-day segment in the future is not
\* touched); without an open segment it raises and changes nothing.
C27_EndClosesLatestOpen ==
    EndCalled =>
        IF OpenBefore = {}
        THEN range.op = "end: ValueError" /\ db = prev
        ELSE /\ range.op = "end"
             /\ \E c \in OpenBefore :
                   /\ \A o \in OpenBefore : o.start <= c.start
                   /\ db = (prev \ {c}) \cup {[c EXCEPT !.end = range.end]}
                   /\ ret = <<[c EXCEPT !.end = range.end]>>

C27_Witness ==
    /\ range.op = "end"
    /\ \E f \in db : f.full_days /\ f.start > ret[1].start /\ f \in prev
    /\ ret[1].end > ret[1].start
    /\ ret[1] \in db

(***************************************************************************)
(* add_holidays (SpecHolidays).                                            *)
(***************************************************************************)
HolidaysAdded == range.op = "add_holidays"

HolidayDates == {holiday_obj[i].date : i \in DOMAIN holiday_obj}

\* the stored holiday segment of a date: full-day, tagged holiday, from the
\* midnight of the date to the next midnight
HolidayOf(rows, d) ==
    {r \in rows : /\ r.full_days
                  /\ "holiday" \in r.tags
                  /\ r.start = Midnight(d)
                  /\ r.end = Midnight(d + 1)}

\* C28: add_holidays leaves an existing holiday segment that has a
\* description unchanged and adds no second holiday segment for its date;
\* an existing holiday segment without description only gets its
\* description set; non-full-day segments are never changed.
C28_ExistingHolidayKept ==
    HolidaysAdded =>
        /\ \A d \in HolidayDates : \A h \in HolidayOf(prev, d) :
              IF h.description # ""
              THEN HolidayOf(db, d) = {h}
              ELSE \E name \in {holiday_obj[i].name : i \in DOMAIN holiday_obj} :
                      HolidayOf(db, d) = {[h EXCEPT !.description = name]}
        /\ Ordinary(prev) \subseteq db

(***************************************************************************)
(* Reconciliation: ranges of the persisted segments.                       *)
(***************************************************************************)
\* C29: after every add call of a sequence whose requests are all closed
\* and carry no full-day tag, the ranges [start, end) of the persisted
\* segments are pairwise disjoint.
C29_ClosedAddsDisjoint ==
    \A r, o \in db : r # o => (r.end <= o.start \/ o.end <= r.start)

C29_Witness ==
    /\ calls = MaxCalls
    /\ Cardinality(db) >= 3
    /\ \E c \in prev : c.start < req.start /\ req.end < c.end /\ c.tags # req.tags
    /\ \E r \in db : SameTriple(r, req)

\* C30: every persisted segment with an end has its end strictly after its
\* start, the new segment as well as a trimmed existing one.
C30_NoEmptySegment ==
    \A r \in db : r.end # None => r.end > r.start

\* the work-day sub-ranges of the request of the call
SubRanges == split_segment_params_per_weekday(req)

\* the request carried a work-days-only tag and was trimmed to one sub-range
TrimmedToOne ==
    /\ Called /\ has_work_days_only_tags(req.tags)
    /\ Len(SubRanges) = 1
    /\ <<SubRanges[1].start, SubRanges[1].end>> # <<req.start, req.end>>

Inside(r, p) == r.start >= p.start /\ r.end # None /\ r.end <= p.end

\* C31: when a work-days-only request was trimmed to one sub-range, every
\* existing segment that lies entirely outside the sub-range is in the store
\* as it was, and every segment the call inserted lies inside the sub-range
C31_TrimmedRangeUsed ==
    TrimmedToOne =>
        /\ \A x \in prev : ~Overlap(x, SubRanges[1]) => x \in db
        /\ \A r \in db \ prev : Inside(r, SubRanges[1])

\* the instants a persisted segment covers (an open one: from its start to
\* the end of the window)
Covered(r) ==
    IF r.end = None
    THEN r.start..(Midnight(FirstDay + NumDaysFullDay) - 1)
    ELSE r.start..(r.end - 1)

\* C32: after any sequence of add calls, no persisted segment with a
\* work-days-only tag covers an instant of a non-work day
C32_WorkDaysOnly ==
    \A r \in db : has_work_days_only_tags(r.tags) => \A t \in Covered(r) : is_work_day(t)

\* the segments the call inserted
Inserted == {r \in db : r.pk >= prevPk}

\* C33: every segment inserted by an add call whose request has
\* full_days = true is stored with full_days = true, the pieces before and
\* after a higher-priority segment and the tail of a split segment included
C33_FullDaysStored ==
    (Called /\ req.full_days) => \A r \in Inserted : r.full_days

\* C34: after every call of a sequence of add calls with full-day tags only,
\* from the empty store, no two persisted segments overlap in time
C34_FullDaysDisjoint ==
    \A a \in db, b \in db : a.pk # b.pk => ~Overlap(a, b)

\* the closed segments of the store before the call whose priority is
\* strictly higher than that of the request
Stronger == {x \in prev : x.end # None /\ get_tag_prio(x.tags) > get_tag_prio(req.tags)}

\* C35: an add call leaves every existing closed segment of strictly higher
\* priority than the request with its start, end and tags
C35_StrongerUntouched ==
    Called => \A x \in Stronger : \E r \in db : r.pk = x.pk /\ SameTriple(r, x)

\* the request overlapped a closed segment of higher priority on its track
\* and a trimmed or split new segment was persisted
C35_Witness ==
    /\ Called /\ req.end # None /\ ret # << >>
    /\ \E x \in Stronger : /\ SameTrack(x, req) /\ Overlap(x, req)
                           /\ x.start < x.end
                           /\ \E r \in db : r.pk = x.pk /\ SameTriple(r, x)
    /\ \A r \in SeqRange(ret) : ~SameTriple(r, req)

\* C36: when an add call returns an empty list, the store is as it was
\* before the call
C36_RejectedLeavesStore ==
    (Called /\ ret = << >>) => db = prev

(***************************************************************************)
(* SpecPast: any sequence of add calls, from the empty store, whose        *)
(* requests all start at or before the now of their call.                  *)
(***************************************************************************)
AddOrdinaryPast ==
    /\ calls < MaxCalls
    /\ \E start \in Ticks \ {LastTick}, tags \in OrdinaryTagSets :
         \E end \in {None} \cup {e \in Ticks : e > start} :
            \E n \in IF end = None THEN NowValues ELSE {now} :
               /\ start <= n
               /\ Add(parse_add_args(start, end, tags), n)
    /\ UNCHANGED parts

AddFullDayPast ==
    /\ calls < MaxCalls
    /\ \E d1 \in FirstDay..(FirstDay + NumDaysFullDay - 1), tags \in FullDayTagSets :
         \E d2 \in d1..(FirstDay + NumDaysFullDay - 1) :
            /\ Midnight(d1) <= now
            /\ Add(parse_add_args(Midnight(d1), Midnight(d2), tags), now)
    /\ UNCHANGED parts

SpecPast == Init /\ [][AddOrdinaryPast \/ AddFullDayPast]_vars

\* the persisted non-full-day segments without end
Open == {r \in Ordinary(db) : r.end = None}

\* C37: after any sequence of add calls whose requests start at or before
\* now, at most one persisted non-full-day segment is open
C37_OneOpen == Cardinality(Open) <= 1

\* C38: in every daily summary work_time and break_time are non-negative
C38_NonNegativeTimes ==
    Summarised => summary.work_time >= 0 /\ summary.break_time >= 0

(***************************************************************************)
(* The self-calls of _add: the pairs <<caller, callee>> of the request a   *)
(* call of _add received and the request it passed to a call of itself,    *)
(* over the whole recursion of one add call.                               *)
(***************************************************************************)
\* the loop body for conflict c returns through the self-calls on the
\* pieces before and after c (lines 525-549)
splits_request(L, c, current_tag_prio) ==
    /\ L.start <= c.start
    /\ L.end # None /\ L.end > c.start
    /\ ~((c.end # None /\ L.end < c.end) \/ c.end = None)
    /\ ~new_wins(get_tag_prio(c.tags), current_tag_prio)

RECURSIVE self_calls(_, _, _)

\* the calls of _add on the requests of ps in turn, made by caller
RECURSIVE each_calls(_, _, _, _)
each_calls(caller, ps, n, st) ==
    IF ps = << >>
    THEN {}
    ELSE {<<caller, Head(ps)>>}
         \cup self_calls(Head(ps), n, st)
         \cup each_calls(caller, Tail(ps), n, _add(Head(ps), n, st).st)

\* the self-calls made from the loop over the conflicting segments
reconcile_calls(caller, p, start, end, n, st) ==
    LET conflicting_segments == find_conflicts(st.rows, p.tags, start, end)
        current_tag_prio == get_tag_prio(p.tags)
        L0 == [st |-> st, p |-> p, start |-> start, end |-> end,
               done |-> FALSE, ret |-> << >>]
        after(k) == resolve_conflicts(L0, SubSeq(conflicting_segments, 1, k), 1, n,
                                      current_tag_prio)
        at == {k \in 1..Len(conflicting_segments) :
                  /\ ~after(k - 1).done
                  /\ splits_request(after(k - 1), conflicting_segments[k],
                                    current_tag_prio)}
    IN IF at = {}
       THEN {}
       ELSE LET k == CHOOSE i \in at : TRUE
                L == after(k - 1)
                c == conflicting_segments[k]
            IN each_calls(caller, split_before(L.p, c) \o split_after(L.p, c), n, L.st)

self_calls(new_segment_params, n, st) ==
    IF has_work_days_only_tags(new_segment_params.tags)
    THEN LET per_weekday == split_segment_params_per_weekday(new_segment_params)
         IN IF Len(per_weekday) = 0
            THEN {}
            ELSE IF Len(per_weekday) > 1
                 THEN each_calls(new_segment_params, per_weekday, n, st)
                 ELSE reconcile_calls(new_segment_params, per_weekday[1],
                          new_segment_params.start, new_segment_params.end, n, st)
    ELSE reconcile_calls(new_segment_params, new_segment_params,
             new_segment_params.start, new_segment_params.end, n, st)

\* the self-calls of the add call that was made last
SelfCalls == self_calls(req, now, Store(prev, prevPk))

Shorter(q, p) ==
    /\ q.end # None
    /\ p.start <= q.start /\ q.end <= p.end
    /\ q.end - q.start < p.end - p.start

\* C39: every self-call of an add call whose request has an end is made on
\* a range that is contained in the range of its caller and is shorter than
\* it, so the recursion ends after finitely many self-calls
C39_SelfCallsShrink ==
    (Called /\ req.end # None) => \A w \in SelfCalls : Shorter(w[2], w[1])

\* a self-call made its own self-call: a sub-range or piece of the request
\* was split again
C39_Witness ==
    /\ Called /\ req.end # None
    /\ \E v \in SelfCalls, w \in SelfCalls : v[2] = w[1] /\ v[1] = req /\ v[1] # v[2]

(***************************************************************************)
(* A run of add that stops before its end: the database is the one of the  *)
(* last commit before the stop, or the one the run started with.           *)
(***************************************************************************)
stops(new_segment_params, n, st) ==
    {Point(st.rows, st.nextPk, st.tags, st.mutated, st.inserts)}
    \cup _add(new_segment_params, n, st).st.points

(***************************************************************************)
(* SpecStop: up to MaxListCalls add calls, then one add call that stops    *)
(* at one of its points.                                                   *)
(***************************************************************************)
AddStopped(p, n) ==
    /\ n >= now
    /\ \E x \in stops(p, n, StoreWith(db, nextPk, tag_table)) :
          /\ db' = x.rows
          /\ nextPk' = x.nextPk
          /\ tag_table' = x.tags
          /\ stopped' = [at |-> "add", mutated |-> x.mutated, inserts |-> x.inserts]
    /\ ret' = << >>
    /\ req' = p
    /\ prev' = db
    /\ prevPk' = nextPk
    /\ now' = n
    /\ calls' = calls + 1
    /\ UNCHANGED <<plan, parts, segments, weekDay, clock, summary, range, fetched,
                   listed>>

\* the arguments of the add calls of AddOrdinary and of AddFullDay
OrdinaryArgs ==
    {a \in (Ticks \ {LastTick}) \X ({None} \cup Ticks) \X OrdinaryTagSets :
        a[2] = None \/ a[2] > a[1]}

FullDayArgs ==
    {<<Midnight(a[1]), Midnight(a[2]), a[3]>> :
        a \in {b \in (FirstDay..(FirstDay + NumDaysFullDay - 1))
                      \X (FirstDay..(FirstDay + NumDaysFullDay - 1))
                      \X FullDayTagSets : b[1] <= b[2]}}

AddAnyStopped ==
    /\ stopped = NoStop
    /\ \E a \in OrdinaryArgs \cup FullDayArgs :
          \E n \in IF a[2] = None THEN NowValues ELSE {now} :
             AddStopped(parse_add_args(a[1], a[2], a[3]), n)

AddBeforeStop ==
    /\ stopped = NoStop
    /\ calls < MaxListCalls
    /\ (AddOrdinary \/ AddFullDay)

SpecStop == Init /\ [][AddBeforeStop \/ AddAnyStopped]_vars

\* the run stopped after it had trimmed, closed or deleted a conflicting
\* segment and before any add_segment call had returned
StoppedAfterMutation == stopped.at = "add" /\ stopped.mutated /\ stopped.inserts = 0

\* the segments of the store before the call, as they are now
Kept == {r \in db : r.pk < prevPk}

\* C40: when the run of add stops after a conflicting segment was trimmed,
\* closed or deleted and before the new segment was inserted, the store
\* keeps those changes (it is not the store before the call) and holds no
\* new segment
C40_NoRollbackNoNewSegment ==
    StoppedAfterMutation => (Kept # prev /\ Inserted = {})
====
